---- MODULE Spec2Model ----
(***************************************************************************)
(* Ledger engine of payments-engine: the account map, the transaction      *)
(* record map and the five command handlers (deposit, withdrawal, dispute, *)
(* resolve, chargeback) that run_from_csv_path applies one at a time.      *)
(*                                                                         *)
(* Amount is an i64 in the program.  The model keeps the checked           *)
(* arithmetic and scales the width down: I64_MAX stands for i64::MAX and   *)
(* I64_MIN for i64::MIN.  Two scaled-down widths are used: a narrow one    *)
(* when every command sequence is explored (Spec), and a wide one, which   *)
(* has room for decimal texts with four fractional digits, when a file is  *)
(* run from its first row to the output (SpecRun, SpecFile) and when       *)
(* Amount::parse_4dp is applied to a text on its own (SpecParse).  SpecIso  *)
(* runs short command sequences next to the run of each client's own       *)
(* commands, at the narrow width.                                          *)
(***************************************************************************)
EXTENDS Integers, FiniteSets, Sequences, TLC

\* ---------------------------------------------------------------- bounds
NarrowMax == 3
WideMax == 16777215
MaxClient == 2
MaxTx == 2
MaxRows == 3
MaxIsoLen == 4

VARIABLE wide   \* TRUE when the run uses the wide image of i64

I64_MAX == IF wide THEN WideMax ELSE NarrowMax

I64_MIN == -I64_MAX - 1

ClientId == 1..MaxClient
TxId == 1..MaxTx

\* Amounts the input layer hands to a DepositCommand / WithdrawalCommand.
\* parse_4dp returns Amount(val) or Amount(-val) and row_to_command passes
\* the value on without looking at its sign, so negative amounts arrive at
\* the handlers as well as positive ones up to i64::MAX.
InputAmounts == {-1, 1, I64_MAX}

\* ---------------------------------------------------------------- Amount
Some(v) == [some |-> TRUE, val |-> v]
None == [some |-> FALSE, val |-> 0]

\* Faulty variant of checked_add: the sum saturates at the ends of the range.
checked_add_saturating(a, b) ==
    IF a + b > I64_MAX THEN Some(I64_MAX)
    ELSE IF a + b < I64_MIN THEN Some(I64_MIN)
    ELSE Some(a + b)

checked_add(a, b) ==
    IF a + b > I64_MAX \/ a + b < I64_MIN THEN None ELSE Some(a + b)

checked_sub(a, b) ==
    IF a - b > I64_MAX \/ a - b < I64_MIN THEN None ELSE Some(a - b)

zero == 0

\* ---------------------------------------------------------- domain state
DefaultAccount == [available |-> 0, held |-> 0, locked |-> FALSE]

TxRecord(client, kind, amount, state) ==
    [client |-> client, kind |-> kind, amount |-> amount, state |-> state]

\* Faulty variant of acct_mut: inserts a default account over an existing one.
acct_mut_reset(accts, c) ==
    [d \in (DOMAIN accts) \cup {c} |-> IF d = c THEN DefaultAccount ELSE accts[d]]

\* Engine::acct_mut: accounts.entry(c).or_default()
acct_mut(accts, c) ==
    IF c \in DOMAIN accts THEN accts ELSE accts @@ (c :> DefaultAccount)

\* Faulty variant of contains_key: the duplicate lookup never finds the tx.
contains_key_never(recs, tx) == FALSE

\* HashMap::contains_key on txs
contains_key(recs, tx) == tx \in DOMAIN recs

\* Faulty variant of insert: the new record replaces the whole map.
insert_alone(recs, tx, rec) == [t \in {tx} |-> rec]

\* HashMap::insert on txs
insert(recs, tx, rec) ==
    [t \in (DOMAIN recs) \cup {tx} |-> IF t = tx THEN rec ELSE recs[t]]

\* What a handler leaves behind: the two maps, the AppResult it returned and
\* whether it ran to its final Ok(()) past every early return.
Ret(accts, recs, result, applied) ==
    [accounts |-> accts, txs |-> recs, result |-> result, applied |-> applied]

\* --------------------------------------------------------------- handlers
\* Faulty variant of process_deposit_command: the locked check is missing.
process_deposit_command_ignores_lock(accts, recs, client, tx, amount) ==
    IF contains_key(recs, tx) THEN Ret(accts, recs, "Ok", FALSE)
    ELSE
      LET a1 == acct_mut(accts, client)
          acc == a1[client]
          s == checked_add(acc.available, amount)
      IN IF ~s.some THEN Ret(a1, recs, "Overflow", FALSE)
         ELSE Ret([a1 EXCEPT ![client].available = s.val],
                  insert(recs, tx, TxRecord(client, "Deposit", amount, "Normal")),
                  "Ok", TRUE)

process_deposit_command(accts, recs, client, tx, amount) ==
    IF contains_key(recs, tx) THEN Ret(accts, recs, "Ok", FALSE)
    ELSE
      LET a1 == acct_mut(accts, client)
          acc == a1[client]
      IN IF acc.locked THEN Ret(a1, recs, "Ok", FALSE)
         ELSE
           LET s == checked_add(acc.available, amount)
           IN IF ~s.some THEN Ret(a1, recs, "Overflow", FALSE)
              ELSE Ret([a1 EXCEPT ![client].available = s.val],
                       insert(recs, tx, TxRecord(client, "Deposit", amount, "Normal")),
                       "Ok", TRUE)

\* Faulty variant of process_withdrawal_command: the funds check counts held.
process_withdrawal_command_counts_held(accts, recs, client, tx, amount) ==
    IF contains_key(recs, tx) THEN Ret(accts, recs, "Ok", FALSE)
    ELSE
      LET a1 == acct_mut(accts, client)
          acc == a1[client]
      IN IF acc.locked THEN Ret(a1, recs, "Ok", FALSE)
         ELSE IF acc.available + acc.held < amount THEN Ret(a1, recs, "Ok", FALSE)
         ELSE
           LET s == checked_sub(acc.available, amount)
           IN IF ~s.some THEN Ret(a1, recs, "Overflow", FALSE)
              ELSE Ret([a1 EXCEPT ![client].available = s.val],
                       insert(recs, tx, TxRecord(client, "Withdrawal", amount, "Normal")),
                       "Ok", TRUE)

\* Faulty variant of process_withdrawal_command: a withdrawal that is ignored
\* for insufficient funds is recorded all the same.
process_withdrawal_command_records_ignored(accts, recs, client, tx, amount) ==
    IF contains_key(recs, tx) THEN Ret(accts, recs, "Ok", FALSE)
    ELSE
      LET a1 == acct_mut(accts, client)
          acc == a1[client]
      IN IF acc.locked THEN Ret(a1, recs, "Ok", FALSE)
         ELSE IF acc.available < amount
         THEN Ret(a1, insert(recs, tx, TxRecord(client, "Withdrawal", amount, "Normal")),
                  "Ok", FALSE)
         ELSE
           LET s == checked_sub(acc.available, amount)
           IN IF ~s.some THEN Ret(a1, recs, "Overflow", FALSE)
              ELSE Ret([a1 EXCEPT ![client].available = s.val],
                       insert(recs, tx, TxRecord(client, "Withdrawal", amount, "Normal")),
                       "Ok", TRUE)

process_withdrawal_command(accts, recs, client, tx, amount) ==
    IF contains_key(recs, tx) THEN Ret(accts, recs, "Ok", FALSE)
    ELSE
      LET a1 == acct_mut(accts, client)
          acc == a1[client]
      IN IF acc.locked THEN Ret(a1, recs, "Ok", FALSE)
         ELSE IF acc.available < amount THEN Ret(a1, recs, "Ok", FALSE)
         ELSE
           LET s == checked_sub(acc.available, amount)
           IN IF ~s.some THEN Ret(a1, recs, "Overflow", FALSE)
              ELSE Ret([a1 EXCEPT ![client].available = s.val],
                       insert(recs, tx, TxRecord(client, "Withdrawal", amount, "Normal")),
                       "Ok", TRUE)

\* Faulty variant of dispute_eligible: the record's state is not looked at.
dispute_eligible_any_state(recs, client, tx) ==
    IF tx \in DOMAIN recs
    THEN IF recs[tx].client # client \/ recs[tx].kind # "Deposit"
         THEN [amount |-> zero, ok |-> FALSE]
         ELSE [amount |-> recs[tx].amount, ok |-> TRUE]
    ELSE [amount |-> zero, ok |-> FALSE]

\* Faulty variant of dispute_eligible: the record's kind is not looked at.
dispute_eligible_any_kind(recs, client, tx) ==
    IF tx \in DOMAIN recs
    THEN IF recs[tx].client # client \/ recs[tx].state # "Normal"
         THEN [amount |-> zero, ok |-> FALSE]
         ELSE [amount |-> recs[tx].amount, ok |-> TRUE]
    ELSE [amount |-> zero, ok |-> FALSE]

\* The (amount, ok) pair computed from the record lookup of a dispute.
dispute_eligible(recs, client, tx) ==
    IF tx \in DOMAIN recs
    THEN IF recs[tx].client # client \/ recs[tx].kind # "Deposit" \/ recs[tx].state # "Normal"
         THEN [amount |-> zero, ok |-> FALSE]
         ELSE [amount |-> recs[tx].amount, ok |-> TRUE]
    ELSE [amount |-> zero, ok |-> FALSE]

\* Faulty variant of resolve_eligible: the record's client is not compared.
resolve_eligible_any_client(recs, client, tx) ==
    IF tx \in DOMAIN recs
    THEN IF recs[tx].state # "Disputed"
         THEN [amount |-> zero, ok |-> FALSE]
         ELSE [amount |-> recs[tx].amount, ok |-> TRUE]
    ELSE [amount |-> zero, ok |-> FALSE]

\* The (amount, ok) pair computed from the record lookup of a resolve.
resolve_eligible(recs, client, tx) ==
    IF tx \in DOMAIN recs
    THEN IF recs[tx].client # client \/ recs[tx].state # "Disputed"
         THEN [amount |-> zero, ok |-> FALSE]
         ELSE [amount |-> recs[tx].amount, ok |-> TRUE]
    ELSE [amount |-> zero, ok |-> FALSE]

\* Faulty variant of chargeback_eligible: a Normal record is accepted too.
chargeback_eligible_not_charged_back(recs, client, tx) ==
    IF tx \in DOMAIN recs
    THEN IF recs[tx].client # client \/ recs[tx].state = "ChargedBack"
         THEN [amount |-> zero, ok |-> FALSE]
         ELSE [amount |-> recs[tx].amount, ok |-> TRUE]
    ELSE [amount |-> zero, ok |-> FALSE]

\* Faulty variant of chargeback_eligible: the client of the record is not
\* compared with the client of the command.
chargeback_eligible_any_client(recs, client, tx) ==
    IF tx \in DOMAIN recs /\ recs[tx].state = "Disputed"
    THEN [amount |-> recs[tx].amount, ok |-> TRUE]
    ELSE [amount |-> zero, ok |-> FALSE]

\* The (amount, ok) pair computed from the record lookup of a chargeback.
chargeback_eligible(recs, client, tx) ==
    IF tx \in DOMAIN recs
    THEN IF recs[tx].client # client \/ recs[tx].state # "Disputed"
         THEN [amount |-> zero, ok |-> FALSE]
         ELSE [amount |-> recs[tx].amount, ok |-> TRUE]
    ELSE [amount |-> zero, ok |-> FALSE]

\* Faulty variant of set_state: the record is replaced by one without amount.
set_state_clears_amount(recs, tx, st) ==
    IF tx \in DOMAIN recs THEN [recs EXCEPT ![tx].state = st, ![tx].amount = zero]
    ELSE recs

\* if let Some(rec) = txs.get_mut(&tx) { rec.state = st }
set_state(recs, tx, st) ==
    IF tx \in DOMAIN recs THEN [recs EXCEPT ![tx].state = st] ELSE recs

\* Faulty variant of process_dispute_command: a dispute locks the account.
process_dispute_command_locks(accts, recs, client, tx) ==
    LET e == dispute_eligible(recs, client, tx)
    IN IF ~e.ok THEN Ret(accts, recs, "Ok", FALSE)
       ELSE
         LET a1 == acct_mut(accts, client)
             acc == a1[client]
         IN IF acc.available < e.amount THEN Ret(a1, recs, "Ok", FALSE)
            ELSE
              LET s == checked_sub(acc.available, e.amount)
              IN IF ~s.some THEN Ret(a1, recs, "Overflow", FALSE)
                 ELSE
                   LET a2 == [a1 EXCEPT ![client].available = s.val]
                       h == checked_add(acc.held, e.amount)
                   IN IF ~h.some THEN Ret(a2, recs, "Overflow", FALSE)
                      ELSE Ret([a2 EXCEPT ![client].held = h.val, ![client].locked = TRUE],
                               set_state(recs, tx, "Disputed"), "Ok", TRUE)

\* Faulty variant of process_dispute_command: a locked account refuses the
\* dispute.
process_dispute_command_refuses_locked(accts, recs, client, tx) ==
    LET e == dispute_eligible(recs, client, tx)
    IN IF ~e.ok THEN Ret(accts, recs, "Ok", FALSE)
       ELSE
         LET a1 == acct_mut(accts, client)
             acc == a1[client]
         IN IF acc.locked \/ acc.available < e.amount THEN Ret(a1, recs, "Ok", FALSE)
            ELSE
              LET s == checked_sub(acc.available, e.amount)
              IN IF ~s.some THEN Ret(a1, recs, "Overflow", FALSE)
                 ELSE
                   LET a2 == [a1 EXCEPT ![client].available = s.val]
                       h == checked_add(acc.held, e.amount)
                   IN IF ~h.some THEN Ret(a2, recs, "Overflow", FALSE)
                      ELSE Ret([a2 EXCEPT ![client].held = h.val],
                               set_state(recs, tx, "Disputed"), "Ok", TRUE)

\* Faulty variant of process_dispute_command: the record is marked Disputed
\* before the held balance is updated.
process_dispute_command_marks_first(accts, recs, client, tx) ==
    LET e == dispute_eligible(recs, client, tx)
    IN IF ~e.ok THEN Ret(accts, recs, "Ok", FALSE)
       ELSE
         LET a1 == acct_mut(accts, client)
             acc == a1[client]
         IN IF acc.available < e.amount THEN Ret(a1, recs, "Ok", FALSE)
            ELSE
              LET s == checked_sub(acc.available, e.amount)
              IN IF ~s.some THEN Ret(a1, recs, "Overflow", FALSE)
                 ELSE
                   LET a2 == [a1 EXCEPT ![client].available = s.val]
                       h == checked_add(acc.held, e.amount)
                   IN IF ~h.some
                      THEN Ret(a2, set_state(recs, tx, "Disputed"), "Overflow", FALSE)
                      ELSE Ret([a2 EXCEPT ![client].held = h.val],
                               set_state(recs, tx, "Disputed"), "Ok", TRUE)

process_dispute_command(accts, recs, client, tx) ==
    LET e == dispute_eligible(recs, client, tx)
    IN IF ~e.ok THEN Ret(accts, recs, "Ok", FALSE)
       ELSE
         LET a1 == acct_mut(accts, client)
             acc == a1[client]
         IN IF acc.available < e.amount THEN Ret(a1, recs, "Ok", FALSE)
            ELSE
              LET s == checked_sub(acc.available, e.amount)
              IN IF ~s.some THEN Ret(a1, recs, "Overflow", FALSE)
                 ELSE
                   LET a2 == [a1 EXCEPT ![client].available = s.val]
                       h == checked_add(acc.held, e.amount)
                   IN IF ~h.some THEN Ret(a2, recs, "Overflow", FALSE)
                      ELSE Ret([a2 EXCEPT ![client].held = h.val],
                               set_state(recs, tx, "Disputed"), "Ok", TRUE)

\* Faulty variant of process_resolve_command: the released funds are not
\* given back to available.
process_resolve_command_drops_funds(accts, recs, client, tx) ==
    LET e == resolve_eligible(recs, client, tx)
    IN IF ~e.ok THEN Ret(accts, recs, "Ok", FALSE)
       ELSE
         LET a1 == acct_mut(accts, client)
             acc == a1[client]
         IN IF acc.held < e.amount THEN Ret(a1, recs, "Overflow", FALSE)
            ELSE
              LET h == checked_sub(acc.held, e.amount)
              IN IF ~h.some THEN Ret(a1, recs, "Overflow", FALSE)
                 ELSE Ret([a1 EXCEPT ![client].held = h.val],
                          set_state(recs, tx, "Normal"), "Ok", TRUE)

\* Faulty variant of process_resolve_command: the balances are moved back
\* but the record stays Disputed.
process_resolve_command_keeps_disputed(accts, recs, client, tx) ==
    LET e == resolve_eligible(recs, client, tx)
    IN IF ~e.ok THEN Ret(accts, recs, "Ok", FALSE)
       ELSE
         LET a1 == acct_mut(accts, client)
             acc == a1[client]
         IN IF acc.held < e.amount THEN Ret(a1, recs, "Overflow", FALSE)
            ELSE
              LET h == checked_sub(acc.held, e.amount)
              IN IF ~h.some THEN Ret(a1, recs, "Overflow", FALSE)
                 ELSE
                   LET a2 == [a1 EXCEPT ![client].held = h.val]
                       s == checked_add(acc.available, e.amount)
                   IN IF ~s.some THEN Ret(a2, recs, "Overflow", FALSE)
                      ELSE Ret([a2 EXCEPT ![client].available = s.val], recs, "Ok", TRUE)

process_resolve_command(accts, recs, client, tx) ==
    LET e == resolve_eligible(recs, client, tx)
    IN IF ~e.ok THEN Ret(accts, recs, "Ok", FALSE)
       ELSE
         LET a1 == acct_mut(accts, client)
             acc == a1[client]
         IN IF acc.held < e.amount THEN Ret(a1, recs, "Overflow", FALSE)
            ELSE
              LET h == checked_sub(acc.held, e.amount)
              IN IF ~h.some THEN Ret(a1, recs, "Overflow", FALSE)
                 ELSE
                   LET a2 == [a1 EXCEPT ![client].held = h.val]
                       s == checked_add(acc.available, e.amount)
                   IN IF ~s.some THEN Ret(a2, recs, "Overflow", FALSE)
                      ELSE Ret([a2 EXCEPT ![client].available = s.val],
                               set_state(recs, tx, "Normal"), "Ok", TRUE)

\* The early revision of process_resolve_command (services/resolve_command.rs):
\* the record is looked up in a clone of the state, there is no held < amount
\* check, and rec.state = Normal is assigned to the record of the clone, so
\* the record map of the state keeps the record as it was.
process_resolve_command_early(accts, recs, client, tx) ==
    IF tx \notin DOMAIN recs THEN Ret(accts, recs, "Ok", FALSE)
    ELSE IF recs[tx].client # client THEN Ret(accts, recs, "Ok", FALSE)
    ELSE IF recs[tx].state # "Disputed" THEN Ret(accts, recs, "Ok", FALSE)
    ELSE
      LET a1 == acct_mut(accts, client)
          acc == a1[client]
          h == checked_sub(acc.held, recs[tx].amount)
      IN IF ~h.some THEN Ret(a1, recs, "Overflow", FALSE)
         ELSE
           LET a2 == [a1 EXCEPT ![client].held = h.val]
               s == checked_add(acc.available, recs[tx].amount)
           IN IF ~s.some THEN Ret(a2, recs, "Overflow", FALSE)
              ELSE Ret([a2 EXCEPT ![client].available = s.val], recs, "Ok", TRUE)

\* Faulty variant of process_chargeback_command: the amount is taken from
\* available instead of held.
process_chargeback_command_takes_available(accts, recs, client, tx) ==
    LET e == chargeback_eligible(recs, client, tx)
    IN IF ~e.ok THEN Ret(accts, recs, "Ok", FALSE)
       ELSE
         LET a1 == acct_mut(accts, client)
             acc == a1[client]
             h == checked_sub(acc.available, e.amount)
         IN IF ~h.some THEN Ret(a1, recs, "Overflow", FALSE)
            ELSE Ret([a1 EXCEPT ![client].available = h.val, ![client].locked = TRUE],
                     set_state(recs, tx, "ChargedBack"), "Ok", TRUE)

\* Faulty variant of process_chargeback_command: the account is not locked.
process_chargeback_command_keeps_unlocked(accts, recs, client, tx) ==
    LET e == chargeback_eligible(recs, client, tx)
    IN IF ~e.ok THEN Ret(accts, recs, "Ok", FALSE)
       ELSE
         LET a1 == acct_mut(accts, client)
             acc == a1[client]
             h == checked_sub(acc.held, e.amount)
         IN IF ~h.some THEN Ret(a1, recs, "Overflow", FALSE)
            ELSE Ret([a1 EXCEPT ![client].held = h.val],
                     set_state(recs, tx, "ChargedBack"), "Ok", TRUE)

process_chargeback_command(accts, recs, client, tx) ==
    LET e == chargeback_eligible(recs, client, tx)
    IN IF ~e.ok THEN Ret(accts, recs, "Ok", FALSE)
       ELSE
         LET a1 == acct_mut(accts, client)
             acc == a1[client]
             h == checked_sub(acc.held, e.amount)
         IN IF ~h.some THEN Ret(a1, recs, "Overflow", FALSE)
            ELSE Ret([a1 EXCEPT ![client].held = h.val, ![client].locked = TRUE],
                     set_state(recs, tx, "ChargedBack"), "Ok", TRUE)

\* ------------------------------------------------------------------ state
VARIABLES
    accounts,    \* Engine.accounts : ClientId -> Account (partial)
    txs,         \* Engine.txs : TxId -> TxRecord (partial)
    deposited,   \* history: sum of the amounts of the deposits that took effect
    withdrawn,   \* history: sum of the amounts of the withdrawals that took effect
    last_dispute, \* history: per tx, whether the latest dispute/resolve/chargeback
                  \* that took effect on it was a dispute
    input,       \* the records of the CSV file, in file order
    commands,    \* per record of input, what the loop makes of it (converted)
    pos,         \* index in input of the row the loop of run_from_csv_path reads next
    run_result,  \* "running", or how run_from_csv_path ended
    output,      \* the rows emit_accounts_to_stdout has written
    emit_result, \* "none", or how emit_accounts_to_stdout ended
    amount_text, \* the text handed to parse_4dp
    parsed,      \* what parse_4dp made of amount_text
    alone        \* per client, the ledger of a run of that client's commands only

ledger_vars == <<accounts, txs, deposited, withdrawn, last_dispute>>

run_vars == <<input, commands, pos, run_result, wide, output, emit_result, amount_text, parsed,
              alone>>

vars == <<accounts, txs, deposited, withdrawn, last_dispute, input, commands, pos, run_result, wide,
          output, emit_result, amount_text, parsed, alone>>

Cmd(kind, client, tx, amount) ==
    [kind |-> kind, client |-> client, tx |-> tx, amount |-> amount]

\* TxCommandTrait::execute, one implementation per command struct
execute(cmd, accts, recs) ==
    CASE cmd.kind = "deposit"    -> process_deposit_command(accts, recs, cmd.client, cmd.tx, cmd.amount)
      [] cmd.kind = "withdrawal" -> process_withdrawal_command(accts, recs, cmd.client, cmd.tx, cmd.amount)
      [] cmd.kind = "dispute"    -> process_dispute_command(accts, recs, cmd.client, cmd.tx)
      [] cmd.kind = "resolve"    -> process_resolve_command(accts, recs, cmd.client, cmd.tx)
      [] cmd.kind = "chargeback" -> process_chargeback_command(accts, recs, cmd.client, cmd.tx)

FundsCommands ==
    {Cmd(k, c, t, a) : k \in {"deposit", "withdrawal"}, c \in ClientId, t \in TxId, a \in InputAmounts}

LifecycleCommands ==
    {Cmd(k, c, t, zero) : k \in {"dispute", "resolve", "chargeback"}, c \in ClientId, t \in TxId}

Commands == FundsCommands \cup LifecycleCommands

Init ==
    /\ wide = FALSE
    /\ accounts = <<>>
    /\ txs = <<>>
    /\ deposited = 0
    /\ withdrawn = 0
    /\ last_dispute = [t \in TxId |-> FALSE]
    /\ input = <<>>
    /\ commands = <<>>
    /\ pos = 1
    /\ run_result = "running"
    /\ output = {}
    /\ emit_result = "none"
    /\ amount_text = <<>>
    /\ alone = <<>>
    /\ parsed = [res |-> "NotParsed", val |-> 0]

\* One iteration of the loop of run_from_csv_path on a row that became cmd:
\* the handler runs, an Err is logged and the loop goes on.
Step(cmd) ==
    LET r == execute(cmd, accounts, txs)
    IN /\ accounts' = r.accounts
       /\ txs' = r.txs
       /\ deposited' = IF cmd.kind = "deposit" /\ r.applied
                       THEN deposited + cmd.amount ELSE deposited
       /\ withdrawn' = IF cmd.kind = "withdrawal" /\ r.applied
                       THEN withdrawn + cmd.amount ELSE withdrawn
       /\ last_dispute' = IF cmd.kind \in {"dispute", "resolve", "chargeback"} /\ r.applied
                          THEN [last_dispute EXCEPT ![cmd.tx] = (cmd.kind = "dispute")]
                          ELSE last_dispute

\* ClientId and TxId are opaque keys: the handlers only compare them for
\* equality.  The input therefore introduces new ids in increasing order (a
\* row names a known id or the least id not yet in the map); every other
\* input is one of these with the ids renamed.
InOrder(ids, known) ==
    {id \in ids : id \in known \/ \A j \in 1..(id - 1) : j \in known}

Deposit ==
    \E c \in InOrder(ClientId, DOMAIN accounts), t \in InOrder(TxId, DOMAIN txs),
       a \in InputAmounts :
        Step(Cmd("deposit", c, t, a)) /\ UNCHANGED run_vars

Withdrawal ==
    \E c \in InOrder(ClientId, DOMAIN accounts), t \in InOrder(TxId, DOMAIN txs),
       a \in InputAmounts :
        Step(Cmd("withdrawal", c, t, a)) /\ UNCHANGED run_vars

Dispute ==
    \E c \in ClientId, t \in TxId : Step(Cmd("dispute", c, t, zero)) /\ UNCHANGED run_vars

Resolve ==
    \E c \in ClientId, t \in TxId : Step(Cmd("resolve", c, t, zero)) /\ UNCHANGED run_vars

Chargeback ==
    \E c \in ClientId, t \in TxId : Step(Cmd("chargeback", c, t, zero)) /\ UNCHANGED run_vars

Next == Deposit \/ Withdrawal \/ Dispute \/ Resolve \/ Chargeback

Spec == Init /\ [][Next]_vars

\* ------------------------------------------------------------ decimal text
\* A text (&str / String) is a sequence of characters, each a one-character
\* string.  The characters that matter to parse_4dp are the ASCII digits,
\* '+', '-', '.', the blank, some other ASCII character ("x") and some
\* character that takes two bytes in UTF-8 ("é").
SCALE == 10000

Digit == <<"0", "1", "2", "3", "4", "5", "6", "7", "8", "9">>

is_digit(ch) == \E i \in 1..Len(Digit) : Digit[i] = ch

digit_val(ch) == (CHOOSE i \in 1..Len(Digit) : Digit[i] = ch) - 1

\* char::len_utf8
len_utf8(ch) == IF ch = "é" THEN 2 ELSE 1

\* The first byte of the character's UTF-8 encoding.
first_byte(ch) ==
    CASE is_digit(ch) -> 48 + digit_val(ch)
      [] ch = " " -> 32
      [] ch = "+" -> 43
      [] ch = "-" -> 45
      [] ch = "." -> 46
      [] ch = "é" -> 195
      [] OTHER -> 120

\* str::len: the length in bytes
RECURSIVE len(_)
len(s) == IF s = <<>> THEN 0 ELSE len_utf8(Head(s)) + len(Tail(s))

\* str::trim
RECURSIVE trim_start(_)
trim_start(s) == IF s # <<>> /\ Head(s) = " " THEN trim_start(Tail(s)) ELSE s

RECURSIVE trim_end(_)
trim_end(s) ==
    IF s # <<>> /\ s[Len(s)] = " " THEN trim_end(SubSeq(s, 1, Len(s) - 1)) ELSE s

trim(s) == trim_end(trim_start(s))

\* Option<&str>
SomeText(s) == [some |-> TRUE, val |-> s]
NoText == [some |-> FALSE, val |-> <<>>]

\* s.splitn(2, '.'): the part before the first '.', and the part after it
\* if there is one.
splitn_dot(s) ==
    IF \E i \in 1..Len(s) : s[i] = "."
    THEN LET i == CHOOSE j \in 1..Len(s) : s[j] = "." /\ \A k \in 1..(j - 1) : s[k] # "."
         IN [head |-> SubSeq(s, 1, i - 1), tail |-> SomeText(SubSeq(s, i + 1, Len(s)))]
    ELSE [head |-> s, tail |-> NoText]

\* The value of a run of digits, accumulated as i64::from_str does; once the
\* value has left the i64 range it stays outside.
RECURSIVE digits_val(_, _)
digits_val(s, acc) ==
    IF s = <<>> THEN acc
    ELSE IF acc > I64_MAX + 1 THEN acc
    ELSE digits_val(Tail(s), acc * Len(Digit) + digit_val(Head(s)))

\* Faulty variant of parse_i64: the text may not start with a sign.
parse_i64_unsigned(s) ==
    IF s = <<>> \/ \E i \in 1..Len(s) : ~is_digit(s[i]) THEN None
    ELSE LET mag == digits_val(s, 0)
         IN IF mag > I64_MAX THEN None ELSE Some(mag)

\* str::parse::<i64>: an optional '+' or '-', then one or more digits, and
\* the value has to fit.
parse_i64(s) ==
    LET signed == s # <<>> /\ s[1] \in {"+", "-"}
        body == IF signed THEN Tail(s) ELSE s
    IN IF body = <<>> \/ \E i \in 1..Len(body) : ~is_digit(body[i]) THEN None
       ELSE LET mag == digits_val(body, 0)
            IN IF signed /\ s[1] = "-"
               THEN IF mag > I64_MAX + 1 THEN None ELSE Some(-mag)
               ELSE IF mag > I64_MAX THEN None ELSE Some(mag)

\* i64::checked_mul by a positive factor
checked_mul(a, b) ==
    IF a > I64_MAX \div b \/ -a > (I64_MAX + 1) \div b THEN None ELSE Some(a * b)

\* frac_src.split_at(4) when frac_src.len() > 4: the cut is at byte 4, and
\* split_at panics when that is inside a character.
split_at_4(s) ==
    IF len(s) > 4
    THEN IF \E k \in 1..Len(s) : len(SubSeq(s, 1, k)) = 4
         THEN LET k == CHOOSE j \in 1..Len(s) : len(SubSeq(s, 1, j)) = 4
              IN [panic |-> FALSE, keep |-> SubSeq(s, 1, k), rest |-> SubSeq(s, k + 1, Len(s))]
         ELSE [panic |-> TRUE, keep |-> <<>>, rest |-> <<>>]
    ELSE [panic |-> FALSE, keep |-> s, rest |-> <<>>]

\* while frac_str.len() < 4 { frac_str.push('0') }
RECURSIVE pad_4(_)
pad_4(s) == IF len(s) < 4 THEN pad_4(Append(s, "0")) ELSE s

\* What parse_4dp leaves: Ok(Amount(val)), one of the AmountParseError
\* variants, or a panic.
Parsed(res, val) == [res |-> res, val |-> val]

\* Faulty variant of round_up: the first dropped digit is never looked at.
round_up_never(rest) == FALSE

\* !rest.is_empty() && rest.as_bytes()[0] >= b'5'
round_up(rest) == rest # <<>> /\ first_byte(rest[1]) >= 53

\* Amount::parse_4dp, read from its last statement to its first; each
\* operator takes the values the statements before it have computed.
\* Ok(if neg { Amount(-val) } else { Amount(val) })
parse_sum(neg, val) ==
    IF ~val.some THEN Parsed("Overflow", 0)
    ELSE Parsed("Ok", IF neg THEN -val.val ELSE val.val)

\* let val = base.checked_add(frac).ok_or(Overflow)?
parse_scale(neg, base, frac) ==
    IF ~frac.some \/ ~base.some THEN Parsed("Overflow", 0)
    ELSE parse_sum(neg, checked_add(base.val, frac.val))

\* the parse of frac_str, the rounding and int_part.checked_mul(SCALE)
parse_round(neg, int_val, frac0, up) ==
    IF ~frac0.some THEN Parsed("MalformedFrac", 0)
    ELSE parse_scale(neg, checked_mul(int_val, SCALE),
                     IF up THEN checked_add(frac0.val, 1) ELSE frac0)

\* the parse of the integer part, then the cut of frac_src into keep and rest
parse_frac(neg, int_part, cut) ==
    IF ~int_part.some THEN Parsed("MalformedInt", 0)
    ELSE IF cut.panic THEN Parsed("Panic", 0)
    ELSE parse_round(neg, int_part.val, parse_i64(pad_4(cut.keep)), round_up(cut.rest))

\* let mut it = s.splitn(2, '.'); frac_src = it.next().unwrap_or("0")
parse_parts(neg, it) ==
    parse_frac(neg, parse_i64(it.head),
               split_at_4(IF it.tail.some THEN it.tail.val ELSE <<"0">>))

\* the Empty check and the one sign character that is stripped
parse_signed(s) ==
    IF s = <<>> THEN Parsed("Empty", 0)
    ELSE parse_parts(s[1] = "-", splitn_dot(IF s[1] \in {"-", "+"} THEN Tail(s) ELSE s))

parse_4dp(s) == parse_signed(trim(s))

\* The decimal digits of a natural number ({} of the format macros).
RECURSIVE dec(_)
dec(n) ==
    IF n < Len(Digit) THEN <<Digit[n + 1]>>
    ELSE Append(dec(n \div Len(Digit)), Digit[(n % Len(Digit)) + 1])

RECURSIVE zero_pad(_, _)
zero_pad(s, width) == IF Len(s) < width THEN zero_pad(<<"0">> \o s, width) ELSE s

\* {} of an i64
fmt_int(n) == IF n < 0 THEN <<"-">> \o dec(-n) ELSE dec(n)

\* Faulty variant of fmt_04: the fraction is written without padding.
fmt_04_unpadded(n) == IF n < 0 THEN <<"-">> \o dec(-n) ELSE dec(n)

\* {:04} of an i64: zero-padded to a width of four, the sign included
fmt_04(n) == IF n < 0 THEN <<"-">> \o zero_pad(dec(-n), 3) ELSE zero_pad(dec(n), 4)

\* i64 `/` and `%`: the quotient is truncated towards zero
trunc_div(n, d) == IF n < 0 THEN -((-n) \div d) ELSE n \div d
trunc_rem(n, d) == n - d * trunc_div(n, d)

\* <Amount as Display>::fmt where i64::abs does not overflow, and where it
\* wraps (i64::MIN in a build without overflow checks).
to_string(n) ==
    LET sign == IF n < 0 THEN <<"-">> ELSE <<>>
        abs == IF n = I64_MIN THEN n ELSE IF n < 0 THEN -n ELSE n
    IN sign \o fmt_int(trunc_div(abs, SCALE)) \o <<".">> \o fmt_04(trunc_rem(abs, SCALE))

\* ------------------------------------------------- a run over a given file
\* What rdr.deserialize::<InputRow>() yields for a record of the file: an
\* InputRow, or an error when the record does not fit the struct.
InputRow(t, client, tx, amount) ==
    [ok |-> TRUE, t |-> t, client |-> client, tx |-> tx, amount |-> amount]

DeserializeError == [ok |-> FALSE, t |-> "", client |-> 0, tx |-> 0, amount |-> NoText]

\* <Amount as FromStr>::from_str: parse_4dp with its error passed on.
from_str(s) == parse_4dp(s)

Converted(res, cmd) == [res |-> res, cmd |-> cmd]

\* row_to_command: Ok(cmd), Err(InvalidInput), or the panic of parse_4dp.
row_to_command(row) ==
    IF row.t \in {"deposit", "withdrawal"}
    THEN IF ~row.amount.some THEN Converted("InvalidInput", Cmd(row.t, row.client, row.tx, zero))
         ELSE LET amount == from_str(row.amount.val)
              IN IF amount.res = "Panic"
                 THEN Converted("Panic", Cmd(row.t, row.client, row.tx, zero))
                 ELSE IF amount.res # "Ok"
                 THEN Converted("InvalidInput", Cmd(row.t, row.client, row.tx, zero))
                 ELSE Converted("Ok", Cmd(row.t, row.client, row.tx, amount.val))
    ELSE Converted("Ok", Cmd(row.t, row.client, row.tx, zero))

\* The body of the for loop on one record: what it leaves of the two maps
\* and how it went ("Ok" or "Overflow" from the handler, "InvalidInput" from
\* row_to_command, "Deserialize" from the reader, or "Panic").
loop_body(rec, accts, recs) ==
    IF ~rec.ok THEN Ret(accts, recs, "Deserialize", FALSE)
    ELSE LET c == row_to_command(rec)
         IN IF c.res # "Ok" THEN Ret(accts, recs, c.res, FALSE)
            ELSE execute(c.cmd, accts, recs)

\* What the loop makes of a record: the command of the row, or why there
\* is none.  It depends on the record alone, so the run keeps it next to the
\* record (commands) from the start.
converted(rec) ==
    IF rec.ok THEN row_to_command(rec) ELSE Converted("Deserialize", Cmd("", 0, 0, zero))

\* Rows of the files of SpecRun: one client, three tx ids, amounts at the
\* edges of the i64 range, every amount a text that Display writes, and a
\* deposit without an amount.
RunRows ==
    { InputRow("deposit", 1, 2, NoText),
      InputRow("deposit", 1, 1, SomeText(to_string(-1))),
      InputRow("deposit", 1, 2, SomeText(to_string(I64_MAX))),
      InputRow("deposit", 1, 3, SomeText(to_string(1))),
      InputRow("withdrawal", 1, 3, SomeText(to_string(-1))),
      InputRow("dispute", 1, 1, NoText),
      InputRow("resolve", 1, 1, NoText) }

RunTxId == {row.tx : row \in RunRows}

RunInputs == [1..MaxRows -> RunRows]

NotParsed == Parsed("NotParsed", 0)

InitRun ==
    /\ wide = TRUE
    /\ accounts = <<>>
    /\ txs = <<>>
    /\ deposited = 0
    /\ withdrawn = 0
    /\ last_dispute = [t \in RunTxId |-> FALSE]
    /\ input \in RunInputs
    /\ commands = [i \in 1..Len(input) |-> converted(input[i])]
    /\ pos = 1
    /\ run_result = "running"
    /\ output = {}
    /\ emit_result = "none"
    /\ amount_text = <<>>
    /\ alone = <<>>
    /\ parsed = NotParsed

\* Faulty variant of after_execute: the handler's error is propagated with `?`
\* and ends the run.
after_execute_abort(result, p) ==
    IF result = "Ok" THEN [pos |-> p + 1, run_result |-> "running"]
    ELSE [pos |-> p, run_result |-> result]

\* if let Err(e) = cmd.execute(app_state) { error!(...) }: the error is logged
\* and the for loop goes on to the next row.
after_execute(result, p) == [pos |-> p + 1, run_result |-> "running"]

\* Faulty variant of after_skip: a row that is not a command ends the run.
after_skip_abort(res, p) == [pos |-> p, run_result |-> res]

\* Err(e) => error!("skip row: {e}") and Err(e) => error!("skip malformed CSV
\* row: {e}"): the loop goes on to the next row; a panic unwinds out of
\* run_from_csv_path and ends the process.
after_skip(res, p) ==
    IF res = "Panic" THEN [pos |-> p, run_result |-> "Panic"]
    ELSE [pos |-> p + 1, run_result |-> "running"]

\* One iteration of the for loop on a row that is a command: Ok(cmd) => ...
RunStep ==
    /\ run_result = "running"
    /\ pos <= Len(input)
    /\ commands[pos].res = "Ok"
    /\ Step(commands[pos].cmd)
    /\ LET nxt == after_execute(execute(commands[pos].cmd, accounts, txs).result, pos)
       IN pos' = nxt.pos /\ run_result' = nxt.run_result
    /\ UNCHANGED <<input, commands, wide, output, emit_result, amount_text, parsed, alone>>

\* One iteration of the for loop on a record that is no command: the two
\* Err(e) arms, and the panic inside row_to_command.
RunSkip ==
    /\ run_result = "running"
    /\ pos <= Len(input)
    /\ commands[pos].res # "Ok"
    /\ LET nxt == after_skip(commands[pos].res, pos)
       IN pos' = nxt.pos /\ run_result' = nxt.run_result
    /\ UNCHANGED ledger_vars
    /\ UNCHANGED <<input, commands, wide, output, emit_result, amount_text, parsed, alone>>

\* The iterator is exhausted: run_from_csv_path returns Ok(()).
RunEnd ==
    /\ run_result = "running"
    /\ pos > Len(input)
    /\ run_result' = "Ok"
    /\ UNCHANGED ledger_vars
    /\ UNCHANGED <<input, commands, pos, wide, output, emit_result, amount_text, parsed, alone>>

\* a + b of two i64 in a build without overflow checks: the sum wraps
wrapping_add(a, b) == ((a + b - I64_MIN) % (2 * (I64_MAX + 1))) + I64_MIN

\* Faulty variant of total: held is left out.
total_available_only(acc) == acc.available

\* Account::total, where `+` does not overflow and where it wraps
total(acc) == wrapping_add(acc.available, acc.held)

\* The overflow checks of a debug build: `+` in Account::total and
\* i64::abs in Display panic where the other build wraps.
emit_overflows(acc) ==
    \/ acc.available + acc.held \notin I64_MIN..I64_MAX
    \/ I64_MIN \in {acc.available, acc.held, total(acc)}

\* impl From<(&ClientId, &Account)> for OutputRow
OutputRow(client, acc) ==
    [client |-> client, available |-> to_string(acc.available),
     held |-> to_string(acc.held), total |-> to_string(total(acc)),
     locked |-> acc.locked]

\* emit_accounts_to_stdout, called by run_app once run_from_csv_path has
\* returned Ok(()): one row per account, in no particular order.  Where an
\* amount overflows, the build decides between the panic and the wrapped
\* value.
Emit ==
    /\ run_result = "Ok"
    /\ emit_result = "none"
    /\ \/ /\ \E c \in DOMAIN accounts : emit_overflows(accounts[c])
          /\ emit_result' = "Panic"
          /\ output' = output
       \/ /\ emit_result' = "Ok"
          /\ output' = {OutputRow(c, accounts[c]) : c \in DOMAIN accounts}
    /\ UNCHANGED ledger_vars
    /\ UNCHANGED <<input, commands, pos, run_result, wide, amount_text, parsed, alone>>

NextRun == RunStep \/ RunSkip \/ RunEnd \/ Emit

\* The loop is sequential code that nothing suspends: it keeps taking steps.
SpecRun == InitRun /\ [][NextRun]_vars /\ WF_vars(NextRun)

\* ------------------------------------------- files with rows of any kind
\* The file of the end-to-end scenario.
EndToEndRows ==
    << InputRow("deposit", 1, 1, SomeText(<<"1", ".", "0">>)),
       InputRow("deposit", 2, 2, SomeText(<<"2", ".", "0">>)),
       InputRow("deposit", 1, 3, SomeText(<<"2", ".", "0">>)),
       InputRow("withdrawal", 1, 4, SomeText(<<"1", ".", "5">>)),
       InputRow("withdrawal", 2, 5, SomeText(<<"3", ".", "0">>)) >>

\* Rows of the other files of SpecFile: deposits and a dispute that are
\* commands, a deposit without amount, amounts that parse_4dp does not
\* accept, and a record that does not deserialize.
FileRows ==
    { InputRow("deposit", 1, 1, SomeText(<<"1", ".", "0">>)),
      InputRow("deposit", 2, 2, SomeText(<<"0", ".", "5">>)),
      InputRow("dispute", 1, 1, NoText),
      InputRow("deposit", 1, 3, NoText),
      InputRow("withdrawal", 1, 3, SomeText(<<"x">>)),
      InputRow("deposit", 1, 3, SomeText(<<"1", ".", "1", "2", "3", "é">>)),
      DeserializeError }

FileInputs == [1..MaxRows -> FileRows] \cup {EndToEndRows}

FileTxId ==
    {EndToEndRows[i].tx : i \in 1..Len(EndToEndRows)}
        \cup {row.tx : row \in {r \in FileRows : r.ok}}

InitFile ==
    /\ wide = TRUE
    /\ accounts = <<>>
    /\ txs = <<>>
    /\ deposited = 0
    /\ withdrawn = 0
    /\ last_dispute = [t \in FileTxId |-> FALSE]
    /\ input \in FileInputs
    /\ commands = [i \in 1..Len(input) |-> converted(input[i])]
    /\ pos = 1
    /\ run_result = "running"
    /\ output = {}
    /\ emit_result = "none"
    /\ amount_text = <<>>
    /\ alone = <<>>
    /\ parsed = NotParsed

SpecFile == InitFile /\ [][NextRun]_vars /\ WF_vars(NextRun)

\* ------------------------------------------------- parse_4dp on its own
\* Texts handed to parse_4dp: white space, signs, an integer part, and a
\* fractional part behind a '.', each drawn from a few shapes.
Pads == { <<>>, <<" ">> }

Signs == { <<>>, <<"-">>, <<"+">>, <<"-", "-">>, <<"+", "-">> }

IntParts ==
    { <<>>, <<"0">>, <<"1">>, <<"1", "2", "3">>, <<"x">>, <<"1", "x">>,
      <<"1", "6", "7", "8">>,
      <<"9", "9", "9", "9", "9", "9", "9", "9", "9", "9", "9", "9">> }

FracParts ==
    { <<>>, <<"5">>, <<"4", "5", "6", "7">>, <<"4", "5", "6", "7", "5">>,
      <<"4", "5", "6", "7", "4", "9">>, <<"9", "9", "9", "9", "5">>,
      <<"0", "0", "0", "0", "5">>, <<"x">>, <<"1", "2", "x", "4">>,
      <<"2", "3", "4", "5", "x">>, <<"2", "3", "4", "5", "1", "x">>,
      <<"+", "5">>, <<"1", "2", "3", "é">> }

ParseTexts ==
    {p \o sg \o ip \o p : p \in Pads, sg \in Signs, ip \in IntParts}
        \cup {p \o sg \o ip \o <<".">> \o fp \o p :
                 p \in Pads, sg \in Signs, ip \in IntParts, fp \in FracParts}

InitParse ==
    /\ wide = TRUE
    /\ accounts = <<>>
    /\ txs = <<>>
    /\ deposited = 0
    /\ withdrawn = 0
    /\ last_dispute = <<>>
    /\ input = <<>>
    /\ commands = <<>>
    /\ pos = 1
    /\ run_result = "running"
    /\ output = {}
    /\ emit_result = "none"
    /\ amount_text \in ParseTexts
    /\ alone = <<>>
    /\ parsed = NotParsed

\* One call of Amount::parse_4dp on the text.
Parse ==
    /\ parsed = NotParsed
    /\ parsed' = parse_4dp(amount_text)
    /\ UNCHANGED ledger_vars
    /\ UNCHANGED <<input, commands, pos, run_result, wide, output, emit_result, amount_text, alone>>

NextParse == Parse

SpecParse == InitParse /\ [][NextParse]_vars

\* ------------------------------------- a run next to its per-client runs
\* The same handlers on a ledger that sees the commands of one client only:
\* alone[c] is the ledger after the commands naming c, in their order, and
\* named is the set of tx ids the Deposits and Withdrawals among them name.
Alone(accts, recs, named) == [accounts |-> accts, txs |-> recs, named |-> named]

InitIso ==
    /\ wide = FALSE
    /\ accounts = <<>>
    /\ txs = <<>>
    /\ deposited = 0
    /\ withdrawn = 0
    /\ last_dispute = [t \in TxId |-> FALSE]
    /\ input = <<>>
    /\ commands = <<>>
    /\ pos = 1
    /\ run_result = "running"
    /\ output = {}
    /\ emit_result = "none"
    /\ amount_text = <<>>
    /\ parsed = NotParsed
    /\ alone = [c \in ClientId |-> Alone(<<>>, <<>>, {})]

\* The tx ids that have been named by a Deposit or Withdrawal so far.
NamedTxIds == UNION {alone[c].named : c \in ClientId}

\* One command applied to the ledger and to the ledger of its client alone;
\* pos counts the commands, and a sequence has at most MaxIsoLen of them.
IsoStep(cmd) ==
    /\ pos <= MaxIsoLen
    /\ pos' = pos + 1
    /\ Step(cmd)
    /\ LET mine == alone[cmd.client]
           r == execute(cmd, mine.accounts, mine.txs)
       IN alone' = [alone EXCEPT ![cmd.client] =
                       Alone(r.accounts, r.txs,
                             IF cmd.kind \in {"deposit", "withdrawal"}
                             THEN mine.named \cup {cmd.tx} ELSE mine.named)]
    /\ UNCHANGED <<input, commands, run_result, wide, output, emit_result, amount_text, parsed>>

IsoFunds ==
    \E k \in {"deposit", "withdrawal"}, c \in InOrder(ClientId, DOMAIN accounts),
       t \in InOrder(TxId, NamedTxIds), a \in InputAmounts :
        IsoStep(Cmd(k, c, t, a))

IsoLifecycle ==
    \E k \in {"dispute", "resolve", "chargeback"}, c \in ClientId, t \in TxId :
        IsoStep(Cmd(k, c, t, zero))

NextIso == IsoFunds \/ IsoLifecycle

SpecIso == InitIso /\ [][NextIso]_vars

\* ------------------------------------------------------- shared vocabulary
Locked(accts, c) == c \in DOMAIN accts /\ accts[c].locked

\* The account a handler works on: the stored one, or the zero-valued
\* unlocked one that is created on first reference.
AccountOf(accts, c) ==
    IF c \in DOMAIN accts THEN accts[c]
    ELSE [available |-> 0, held |-> 0, locked |-> FALSE]

NoOp(r) == r.result = "Ok" /\ r.accounts = accounts /\ r.txs = txs

RECURSIVE SumOfTotals(_, _)
SumOfTotals(accts, S) ==
    IF S = {} THEN 0
    ELSE LET c == CHOOSE x \in S : TRUE
         IN accts[c].available + accts[c].held + SumOfTotals(accts, S \ {c})

\* ---------------------------------------------------------------------- C1
\* C1: the sum of available + held over all accounts is never greater than
\* the sum of the deposits that took effect minus the sum of the withdrawals
\* that took effect.
C1_Conservation ==
    SumOfTotals(accounts, DOMAIN accounts) <= deposited - withdrawn

\* ---------------------------------------------------------------------- C2
\* C2: between commands every account has available >= 0 and held >= 0.
C2_NonNegativeBalances ==
    \A c \in DOMAIN accounts : accounts[c].available >= 0 /\ accounts[c].held >= 0

\* ---------------------------------------------------------------------- C3
\* C3: a Deposit or Withdrawal whose tx id is already recorded (by either
\* kind, any client, any amount) returns Ok and leaves every account and
\* every record unchanged; a Deposit applied twice leaves the same state as
\* applied once.
C3_DuplicateTxIsIdempotent ==
    \A cmd \in FundsCommands :
        LET r1 == execute(cmd, accounts, txs)
            r2 == execute(cmd, r1.accounts, r1.txs)
        IN /\ cmd.tx \in DOMAIN txs => NoOp(r1)
           /\ cmd.kind = "deposit" =>
                  /\ r2.accounts = r1.accounts
                  /\ r2.txs = r1.txs
                  /\ r2.result = (IF r1.applied THEN "Ok" ELSE r1.result)

\* A tx id is recorded as a Deposit and as a Withdrawal, so duplicates of both
\* kinds, for the other client and with other amounts, are executed here.
C3_Witness ==
    /\ \E t \in DOMAIN txs : txs[t].kind = "Deposit" /\ txs[t].amount > 0
    /\ \E t \in DOMAIN txs : txs[t].kind = "Withdrawal" /\ txs[t].amount > 0

\* ---------------------------------------------------------------------- C4
\* C4: on a locked account every Deposit or Withdrawal returns Ok, leaves
\* available, held and locked unchanged and inserts no record.
C4_LockedBlocksFunds ==
    \A cmd \in FundsCommands :
        Locked(accounts, cmd.client) =>
            LET r == execute(cmd, accounts, txs)
            IN /\ r.result = "Ok"
               /\ r.accounts = accounts
               /\ r.txs = txs
               /\ DOMAIN r.txs = DOMAIN txs

\* An account has been locked by a chargeback while a tx id is still unused,
\* so a Deposit or Withdrawal gets past the duplicate check to the locked
\* check.
C4_Witness ==
    \E c \in DOMAIN accounts :
        /\ accounts[c].locked
        /\ \E t \in DOMAIN txs : txs[t].client = c /\ txs[t].state = "ChargedBack"
        /\ \E t \in TxId : t \notin DOMAIN txs

\* ---------------------------------------------------------------------- C5
\* C5: once a record is ChargedBack, every later Dispute, Resolve or
\* Chargeback naming it (by any client) is a no-op, the record stays
\* ChargedBack in every step and the owning account stays locked.
C5_State ==
    \A t \in DOMAIN txs :
        txs[t].state = "ChargedBack" =>
            /\ Locked(accounts, txs[t].client)
            /\ \A cmd \in LifecycleCommands :
                   cmd.tx = t => NoOp(execute(cmd, accounts, txs))

C5_Step ==
    \A t \in DOMAIN txs :
        txs[t].state = "ChargedBack" =>
            /\ t \in DOMAIN txs'
            /\ txs'[t] = txs[t]
            /\ last_dispute'[t] = last_dispute[t]
            /\ Locked(accounts', txs[t].client)

C5_ChargebackTerminal == [](C5_State) /\ [][C5_Step]_vars

\* A charged-back record whose owner still has enough available funds for a
\* new dispute of it to pass the funds guard.
C5_Witness ==
    \E t \in DOMAIN txs :
        /\ txs[t].state = "ChargedBack"
        /\ accounts[txs[t].client].available >= txs[t].amount
        /\ txs[t].amount > 0

\* ---------------------------------------------------------------------- C6
\* C6: in every step locked never goes from true to false, and it goes from
\* false to true only in a Chargeback that takes effect on a record owned by
\* that client.
C6_State ==
    \A cmd \in Commands :
        LET r == execute(cmd, accounts, txs)
        IN \A c \in ClientId :
            /\ Locked(accounts, c) => Locked(r.accounts, c)
            /\ (~Locked(accounts, c) /\ Locked(r.accounts, c)) =>
                   /\ cmd.kind = "chargeback"
                   /\ r.applied
                   /\ cmd.tx \in DOMAIN txs
                   /\ txs[cmd.tx].client = c

C6_Step ==
    \A c \in ClientId :
        /\ Locked(accounts, c) => Locked(accounts', c)
        /\ (~Locked(accounts, c) /\ Locked(accounts', c)) =>
               \E t \in DOMAIN txs :
                   /\ txs[t].client = c
                   /\ txs[t].state = "Disputed"
                   /\ txs'[t].state = "ChargedBack"

C6_LockedIsOneWayLatch == [](C6_State) /\ [][C6_Step]_vars

\* One client's account has been locked by a chargeback while the other
\* client's account exists and is still unlocked.
C6_Witness ==
    /\ \E c \in DOMAIN accounts : accounts[c].locked
    /\ \E c \in DOMAIN accounts : ~accounts[c].locked
    /\ \E t \in DOMAIN txs : txs[t].state = "ChargedBack"

\* ---------------------------------------------------------------------- C7
\* C7: in every step a record's state stays the same or makes exactly one of
\* Normal->Disputed (by Dispute), Disputed->Normal (by Resolve),
\* Disputed->ChargedBack (by Chargeback); a Resolve or Chargeback on a record
\* that is not Disputed changes nothing, so it has an effect only if the
\* latest effective lifecycle command on that tx was a Dispute.
C7_State ==
    /\ \A t \in DOMAIN txs : txs[t].state = "Disputed" <=> last_dispute[t]
    /\ \A cmd \in Commands :
           LET r == execute(cmd, accounts, txs)
           IN /\ \A t \in DOMAIN txs :
                    /\ t \in DOMAIN r.txs
                    /\ \/ r.txs[t].state = txs[t].state
                       \/ /\ txs[t].state = "Normal" /\ r.txs[t].state = "Disputed"
                          /\ cmd.kind = "dispute" /\ cmd.tx = t
                       \/ /\ txs[t].state = "Disputed" /\ r.txs[t].state = "Normal"
                          /\ cmd.kind = "resolve" /\ cmd.tx = t
                       \/ /\ txs[t].state = "Disputed" /\ r.txs[t].state = "ChargedBack"
                          /\ cmd.kind = "chargeback" /\ cmd.tx = t
              /\ cmd.kind \in {"resolve", "chargeback"} =>
                    /\ (cmd.tx \notin DOMAIN txs \/ txs[cmd.tx].state # "Disputed") => NoOp(r)
                    /\ (r.accounts # accounts \/ r.txs # txs) => last_dispute[cmd.tx]

C7_Step ==
    \A t \in DOMAIN txs :
        /\ t \in DOMAIN txs'
        /\ \/ txs'[t].state = txs[t].state /\ last_dispute'[t] = last_dispute[t]
           \/ /\ txs[t].state = "Normal" /\ txs'[t].state = "Disputed"
              /\ last_dispute'[t]
           \/ /\ txs[t].state = "Disputed" /\ txs'[t].state = "Normal"
              /\ ~last_dispute'[t]
           \/ /\ txs[t].state = "Disputed" /\ txs'[t].state = "ChargedBack"
              /\ ~last_dispute'[t]

C7_TxStateMachine == [](C7_State) /\ [][C7_Step]_vars

\* One record has gone Normal -> Disputed -> ChargedBack; another one is
\* Disputed with held funds to cover it, so that both a Resolve and a
\* Chargeback of it take effect from here.
C7_Witness ==
    /\ \E t \in DOMAIN txs : txs[t].state = "ChargedBack"
    /\ \E t \in DOMAIN txs :
           /\ txs[t].state = "Disputed"
           /\ last_dispute[t]
           /\ process_resolve_command(accounts, txs, txs[t].client, t).applied
           /\ process_chargeback_command(accounts, txs, txs[t].client, t).applied

\* ---------------------------------------------------------------------- C8
\* C8: whenever Dispute(c, tx) takes effect, an immediately following
\* Resolve(c, tx) succeeds and restores exactly the pre-dispute state.
C8_DisputeResolveRoundTrip ==
    \A c \in ClientId, t \in TxId :
        LET d == process_dispute_command(accounts, txs, c, t)
            r == process_resolve_command(d.accounts, d.txs, c, t)
        IN d.applied => /\ r.result = "Ok"
                        /\ r.accounts = accounts
                        /\ r.txs = txs

\* ---------------------------------------------------------------------- C9
\* C9: a Deposit whose tx is not recorded, whose account is not locked and
\* whose addition does not overflow sets available to available + amt, leaves
\* held and locked unchanged, creates the account first if the client was
\* unknown, and inserts the record {client, Deposit, amt, Normal} under tx.
C9_DepositEffect ==
    \A c \in ClientId, t \in TxId, a \in InputAmounts :
        LET old == AccountOf(accounts, c)
            r == process_deposit_command(accounts, txs, c, t, a)
        IN (/\ t \notin DOMAIN txs
            /\ ~old.locked
            /\ old.available + a \in I64_MIN..I64_MAX) =>
               /\ r.result = "Ok"
               /\ DOMAIN r.accounts = DOMAIN accounts \cup {c}
               /\ r.accounts[c] = [available |-> old.available + a,
                                   held |-> old.held, locked |-> FALSE]
               /\ \A d \in DOMAIN accounts \ {c} : r.accounts[d] = accounts[d]
               /\ DOMAIN r.txs = DOMAIN txs \cup {t}
               /\ r.txs[t] = [client |-> c, kind |-> "Deposit", amount |-> a,
                              state |-> "Normal"]
               /\ \A u \in DOMAIN txs : r.txs[u] = txs[u]

\* A deposit has taken effect on an account that holds funds and is not
\* locked; another client is still unknown and a tx id is unused, so both the
\* existing-account and the create-account deposit happen next.
C9_Witness ==
    /\ \E c \in DOMAIN accounts : accounts[c].available > 0 /\ ~accounts[c].locked
    /\ \E t \in DOMAIN txs : txs[t].kind = "Deposit" /\ txs[t].state = "Normal"
    /\ \E c \in ClientId : c \notin DOMAIN accounts
    /\ \E t \in TxId : t \notin DOMAIN txs
    /\ deposited > 0

\* --------------------------------------------------------------------- C10
\* C10: a Withdrawal whose tx is not recorded, whose account is not locked
\* and with available >= amt sets available to available - amt, leaves held
\* and locked unchanged, and inserts the record {client, Withdrawal, amt,
\* Normal} under tx.
C10_WithdrawalEffect ==
    \A c \in ClientId, t \in TxId, a \in InputAmounts :
        LET old == AccountOf(accounts, c)
            r == process_withdrawal_command(accounts, txs, c, t, a)
        IN (/\ t \notin DOMAIN txs
            /\ ~old.locked
            /\ old.available >= a) =>
               /\ r.result = "Ok"
               /\ DOMAIN r.accounts = DOMAIN accounts \cup {c}
               /\ r.accounts[c] = [available |-> old.available - a,
                                   held |-> old.held, locked |-> FALSE]
               /\ \A d \in DOMAIN accounts \ {c} : r.accounts[d] = accounts[d]
               /\ DOMAIN r.txs = DOMAIN txs \cup {t}
               /\ r.txs[t] = [client |-> c, kind |-> "Withdrawal", amount |-> a,
                              state |-> "Normal"]
               /\ \A u \in DOMAIN txs : r.txs[u] = txs[u]

\* --------------------------------------------------------------------- C11
\* C11: a Withdrawal with amt > available returns success, leaves the
\* balances of the account (and of every other account) unchanged and records
\* no tx; held funds do not count towards what can be withdrawn.
C11_InsufficientFunds ==
    \A c \in ClientId, t \in TxId, a \in InputAmounts :
        LET old == AccountOf(accounts, c)
            r == process_withdrawal_command(accounts, txs, c, t, a)
        IN a > old.available =>
               /\ r.result = "Ok"
               /\ AccountOf(r.accounts, c) = old
               /\ \A d \in DOMAIN accounts : r.accounts[d] = accounts[d]
               /\ r.txs = txs

\* An unlocked account whose held funds would cover a withdrawal that its
\* available funds do not, with a tx id still free for it.
C11_Witness ==
    \E c \in DOMAIN accounts, a \in InputAmounts :
        /\ ~accounts[c].locked
        /\ accounts[c].held > 0
        /\ accounts[c].available < a
        /\ a <= accounts[c].available + accounts[c].held
        /\ \E t \in TxId : t \notin DOMAIN txs

\* --------------------------------------------------------------------- C12
\* C12: a Dispute(client, tx) on a recorded Normal Deposit of the client with
\* available >= amount, held + amount not overflowing, sets available to
\* available - amount, held to held + amount and the record's state to
\* Disputed, and leaves locked, the other accounts and the other records
\* unchanged.
C12_DisputeEffect ==
    \A c \in ClientId, t \in DOMAIN txs :
        LET old == AccountOf(accounts, c)
            amt == txs[t].amount
            r == process_dispute_command(accounts, txs, c, t)
        IN (/\ txs[t].client = c
            /\ txs[t].kind = "Deposit"
            /\ txs[t].state = "Normal"
            /\ old.available >= amt
            /\ old.held + amt \in I64_MIN..I64_MAX) =>
               /\ r.result = "Ok"
               /\ r.accounts = [accounts EXCEPT ![c] = [available |-> old.available - amt,
                                                        held |-> old.held + amt,
                                                        locked |-> old.locked]]
               /\ r.txs = [txs EXCEPT ![t].state = "Disputed"]

\* --------------------------------------------------------------------- C13
\* C13: a Dispute(client, tx) returns success and leaves every balance and
\* every record unchanged whenever the record is a Withdrawal, or is already
\* Disputed or ChargedBack, or the client's available is less than the
\* record's amount.
C13_DisputeIneligible ==
    \A c \in ClientId, t \in DOMAIN txs :
        LET r == process_dispute_command(accounts, txs, c, t)
        IN (\/ txs[t].kind = "Withdrawal"
            \/ txs[t].state \in {"Disputed", "ChargedBack"}
            \/ AccountOf(accounts, c).available < txs[t].amount) => NoOp(r)

\* A Normal Deposit whose funds were withdrawn since, next to the Withdrawal
\* record that took them.
C13_Witness ==
    \E t \in DOMAIN txs, u \in DOMAIN txs :
        /\ txs[t].kind = "Deposit" /\ txs[t].state = "Normal" /\ txs[t].amount > 0
        /\ accounts[txs[t].client].available < txs[t].amount
        /\ txs[u].kind = "Withdrawal" /\ txs[u].client = txs[t].client
        /\ txs[u].amount > 0

\* --------------------------------------------------------------------- C14
\* C14: a Resolve(client, tx) on a recorded Disputed record of the client,
\* when no arithmetic fails (held >= amount, held - amount and
\* available + amount in range), sets held to held - amount, available to
\* available + amount and the record's state to Normal, and leaves locked,
\* the other accounts and the other records unchanged.
C14_ResolveEffect ==
    \A c \in ClientId, t \in DOMAIN txs :
        LET old == AccountOf(accounts, c)
            amt == txs[t].amount
            r == process_resolve_command(accounts, txs, c, t)
        IN (/\ txs[t].client = c
            /\ txs[t].state = "Disputed"
            /\ old.held >= amt
            /\ old.held - amt \in I64_MIN..I64_MAX
            /\ old.available + amt \in I64_MIN..I64_MAX) =>
               /\ r.result = "Ok"
               /\ r.accounts = [accounts EXCEPT ![c] = [available |-> old.available + amt,
                                                        held |-> old.held - amt,
                                                        locked |-> old.locked]]
               /\ r.txs = [txs EXCEPT ![t].state = "Normal"]

\* A Disputed record of a positive amount that its owner's held covers and
\* that fits back into available.
C14_Witness ==
    \E t \in DOMAIN txs :
        /\ txs[t].state = "Disputed" /\ txs[t].amount > 0
        /\ accounts[txs[t].client].held >= txs[t].amount
        /\ accounts[txs[t].client].available > 0
        /\ accounts[txs[t].client].available + txs[t].amount <= I64_MAX

\* --------------------------------------------------------------------- C15
\* C15: a Chargeback(client, tx) on a recorded Disputed record of the client,
\* when held - amount does not overflow, sets held to held - amount, leaves
\* available unchanged, sets locked and sets the record's state to
\* ChargedBack, so the account's total drops by exactly the amount; the other
\* accounts and records are unchanged.
C15_ChargebackEffect ==
    \A c \in ClientId, t \in DOMAIN txs :
        LET old == AccountOf(accounts, c)
            amt == txs[t].amount
            r == process_chargeback_command(accounts, txs, c, t)
        IN (/\ txs[t].client = c
            /\ txs[t].state = "Disputed"
            /\ old.held - amt \in I64_MIN..I64_MAX) =>
               /\ r.result = "Ok"
               /\ r.accounts = [accounts EXCEPT ![c] = [available |-> old.available,
                                                        held |-> old.held - amt,
                                                        locked |-> TRUE]]
               /\ r.txs = [txs EXCEPT ![t].state = "ChargedBack"]
               /\ (r.accounts[c].available + r.accounts[c].held)
                     = (old.available + old.held) - amt

\* A Disputed record of a positive amount on an account that is not locked
\* yet and has funds in available too.
C15_Witness ==
    \E t \in DOMAIN txs :
        /\ txs[t].state = "Disputed" /\ txs[t].amount > 0
        /\ ~accounts[txs[t].client].locked
        /\ accounts[txs[t].client].available > 0
        /\ accounts[txs[t].client].held >= txs[t].amount

\* --------------------------------------------------------------------- C16
\* C16: a Dispute, Resolve or Chargeback whose client is not the client that
\* owns the record returns success and changes nothing: no record, neither
\* the owner's nor the caller's account, and no account is added.
C16_WrongClientIsNoOp ==
    \A cmd \in LifecycleCommands :
        (cmd.tx \in DOMAIN txs /\ txs[cmd.tx].client # cmd.client) =>
            NoOp(execute(cmd, accounts, txs))

\* A Disputed record of one client while another client has an account with
\* funds of its own.
C16_Witness ==
    \E t \in DOMAIN txs, c \in DOMAIN accounts :
        /\ txs[t].client # c
        /\ txs[t].state = "Disputed" /\ txs[t].amount > 0
        /\ accounts[txs[t].client].held >= txs[t].amount
        /\ accounts[c].available > 0

\* --------------------------------------------------------------------- C17
\* C17: every command that fails a precondition of its kind (recorded tx,
\* locked account or insufficient funds for a Deposit or Withdrawal; missing
\* record, other client's record, wrong kind or state, or insufficient
\* available for a Dispute, Resolve or Chargeback) returns success and leaves
\* the whole ledger as it was, the set of known accounts included.
C17_IneligibleLeavesLedgerUntouched ==
    \A cmd \in Commands :
        LET c == cmd.client
            t == cmd.tx
            acc == AccountOf(accounts, c)
            recorded == t \in DOMAIN txs
            own == recorded /\ txs[t].client = c
            ineligible ==
                CASE cmd.kind = "deposit" -> recorded \/ acc.locked
                  [] cmd.kind = "withdrawal" ->
                        recorded \/ acc.locked \/ acc.available < cmd.amount
                  [] cmd.kind = "dispute" ->
                        \/ ~own
                        \/ txs[t].kind # "Deposit"
                        \/ txs[t].state # "Normal"
                        \/ acc.available < txs[t].amount
                  [] OTHER -> ~own \/ txs[t].state # "Disputed"
        IN ineligible => NoOp(execute(cmd, accounts, txs))

\* --------------------------------------------------------------------- C18
\* C18: on a locked account a Dispute, Resolve or Chargeback naming one of
\* the client's records does exactly what it would do if the account were
\* not locked: same result, same records, same available and held, and the
\* account stays locked.
C18_LockedDoesNotGateLifecycle ==
    \A cmd \in LifecycleCommands :
        LET c == cmd.client
        IN (/\ c \in DOMAIN accounts
            /\ accounts[c].locked
            /\ cmd.tx \in DOMAIN txs
            /\ txs[cmd.tx].client = c) =>
               LET unlocked == [accounts EXCEPT ![c].locked = FALSE]
                   rl == execute(cmd, accounts, txs)
                   ru == execute(cmd, unlocked, txs)
               IN /\ rl.result = ru.result
                  /\ rl.applied = ru.applied
                  /\ rl.txs = ru.txs
                  /\ rl.accounts[c].available = ru.accounts[c].available
                  /\ rl.accounts[c].held = ru.accounts[c].held
                  /\ rl.accounts[c].locked
                  /\ \A d \in DOMAIN accounts \ {c} : rl.accounts[d] = ru.accounts[d]

\* A locked account that still owns a Normal Deposit its available covers,
\* so that a Dispute of it meets its preconditions.
C18_Witness ==
    \E t \in DOMAIN txs :
        /\ txs[t].kind = "Deposit" /\ txs[t].state = "Normal" /\ txs[t].amount > 0
        /\ accounts[txs[t].client].locked
        /\ accounts[txs[t].client].available >= txs[t].amount

\* --------------------------------------------------------------------- C19
\* C19: a Dispute or a Resolve never changes available + held of any
\* account, whatever it returns.
C19_DisputeResolveKeepTotal ==
    \A cmd \in LifecycleCommands :
        cmd.kind \in {"dispute", "resolve"} =>
            LET r == execute(cmd, accounts, txs)
            IN \A d \in DOMAIN r.accounts :
                   r.accounts[d].available + r.accounts[d].held
                       = AccountOf(accounts, d).available + AccountOf(accounts, d).held

\* --------------------------------------------------------------------- C20
\* The ledger after the loop body has run on each of the first k rows, in
\* file order, whatever each of them returned.
RECURSIVE Replay(_, _)
Replay(rows, k) ==
    IF k = 0 THEN [accounts |-> <<>>, txs |-> <<>>]
    ELSE LET before == Replay(rows, k - 1)
             r == loop_body(rows[k], before.accounts, before.txs)
         IN [accounts |-> r.accounts, txs |-> r.txs]

\* The run is going or has returned Ok(()), it returns only past the last
\* row, and the ledger is what the rows read so far leave behind, rows whose
\* handler failed included.
C20_State ==
    /\ run_result \in {"running", "Ok"}
    /\ pos \in 1..(Len(input) + 1)
    /\ run_result = "Ok" => pos = Len(input) + 1
    /\ [accounts |-> accounts, txs |-> txs] = Replay(input, pos - 1)

\* C20: a handler's hard error does not stop the run: every row of the
\* input is applied in input order, rows after a failing one included, and
\* run_from_csv_path returns Ok(()) once the input is exhausted.
C20_LogAndContinue ==
    /\ [](C20_State)
    /\ <>(/\ run_result = "Ok"
          /\ [accounts |-> accounts, txs |-> txs] = Replay(input, Len(input)))

\* A run that has returned after a row whose handler failed with Overflow and
\* a later row that took effect.
C20_Witness ==
    /\ run_result = "Ok"
    /\ \E i \in 1..Len(input), j \in 1..Len(input) :
        /\ i < j
        /\ LET before == Replay(input, i - 1)
           IN loop_body(input[i], before.accounts, before.txs).result = "Overflow"
        /\ LET before == Replay(input, j - 1)
           IN loop_body(input[j], before.accounts, before.txs).applied

\* ---------------------------------------------------------------- C21
\* A row the loop cannot turn into a command: a record that does not
\* deserialize, or a deposit or withdrawal whose amount is missing or is a
\* text that parse_4dp returns no amount for.
malformed(rec) ==
    \/ ~rec.ok
    \/ /\ rec.t \in {"deposit", "withdrawal"}
       /\ \/ ~rec.amount.some
          \/ from_str(rec.amount.val).res # "Ok"

\* C21: a malformed row is skipped.  In every state of a run over a file, the
\* run has not been aborted, every row before the current one has been
\* processed in order, and each malformed row among them left the accounts
\* and the records as they were before it.
C21_MalformedRowSkipped ==
    /\ run_result \in {"running", "Ok"}
    /\ [accounts |-> accounts, txs |-> txs] = Replay(input, pos - 1)
    /\ \A i \in 1..(pos - 1) :
          malformed(input[i]) =>
             /\ Replay(input, i).accounts = Replay(input, i - 1).accounts
             /\ Replay(input, i).txs = Replay(input, i - 1).txs

\* ---------------------------------------------------------------- C22
\* C22: a Deposit whose tx is not recorded, on an account that is not locked,
\* where available + amt is outside the i64 range, returns the Overflow
\* error, leaves available, held and locked of the account as they were,
\* leaves every other account alone and records nothing.
C22_DepositOverflow ==
    \A c \in ClientId, t \in TxId, a \in InputAmounts :
        LET old == AccountOf(accounts, c)
            r == process_deposit_command(accounts, txs, c, t, a)
        IN (/\ t \notin DOMAIN txs
            /\ ~old.locked
            /\ old.available + a \notin I64_MIN..I64_MAX) =>
               /\ r.result = "Overflow"
               /\ ~r.applied
               /\ AccountOf(r.accounts, c) = old
               /\ \A d \in DOMAIN accounts \ {c} : r.accounts[d] = accounts[d]
               /\ r.txs = txs

\* An unlocked account holds funds and a tx id is unused, so that the
\* deposit of the largest amount overflows its available; the ledger has
\* already refused such a deposit (deposited counts only what was applied).
C22_Witness ==
    \E c \in DOMAIN accounts, t \in TxId :
        /\ ~accounts[c].locked
        /\ accounts[c].available > 0
        /\ t \notin DOMAIN txs
        /\ process_deposit_command(accounts, txs, c, t, I64_MAX).result = "Overflow"

\* ---------------------------------------------------------------- C23
\* C23: no computed amount leaves the i64 range.  The balances are kept in
\* range by checked_add and checked_sub; the total that is written for an
\* account is the true sum of its available and held, neither wrapped nor
\* the cause of a panic.
C23_NoAmountWraps ==
    \A c \in DOMAIN accounts :
        /\ accounts[c].available \in I64_MIN..I64_MAX
        /\ accounts[c].held \in I64_MIN..I64_MAX
        /\ total(accounts[c]) = accounts[c].available + accounts[c].held
        /\ ~emit_overflows(accounts[c])

\* ---------------------------------------------------------------- C24
\* The two rows written for the file of the end-to-end scenario.
EndToEndOutput ==
    { [client |-> 1, available |-> <<"1", ".", "5", "0", "0", "0">>,
       held |-> <<"0", ".", "0", "0", "0", "0">>,
       total |-> <<"1", ".", "5", "0", "0", "0">>, locked |-> FALSE],
      [client |-> 2, available |-> <<"2", ".", "0", "0", "0", "0">>,
       held |-> <<"0", ".", "0", "0", "0", "0">>,
       total |-> <<"2", ".", "0", "0", "0", "0">>, locked |-> FALSE] }

\* C24: the run over deposit,1,1,1.0; deposit,2,2,2.0; deposit,1,3,2.0;
\* withdrawal,1,4,1.5; withdrawal,2,5,3.0 is never aborted, once it has
\* returned there are exactly the accounts of clients 1 and 2 and tx 5 is
\* not recorded, and what is written is client 1 with 1.5000, 0.0000,
\* 1.5000, false and client 2 with 2.0000, 0.0000, 2.0000, false.
C24_EndToEnd ==
    input = EndToEndRows =>
        /\ run_result # "Panic"
        /\ emit_result # "Panic"
        /\ run_result = "Ok" =>
              /\ DOMAIN accounts = {1, 2}
              /\ DOMAIN txs = {1, 2, 3, 4}
              /\ accounts[1] = [available |-> 15000, held |-> 0, locked |-> FALSE]
              /\ accounts[2] = [available |-> 20000, held |-> 0, locked |-> FALSE]
        /\ emit_result = "Ok" => output = EndToEndOutput

\* The run over the scenario's file has returned and its accounts have been
\* written.
C24_Witness ==
    /\ input = EndToEndRows
    /\ pos = Len(EndToEndRows) + 1
    /\ run_result = "Ok"
    /\ emit_result = "Ok"
    /\ output # {}

\* ---------------------------------------------------------------- C25
\* C25: every record of the record map has an amount greater than zero.
C25_RecordAmountsPositive ==
    \A t \in DOMAIN txs : txs[t].amount > 0

\* ---------------------------------------------------------------- C26
\* Every record of recs is in after, with its client, kind and amount.
RecordsKept(recs, after) ==
    /\ DOMAIN recs \subseteq DOMAIN after
    /\ \A t \in DOMAIN recs :
          /\ after[t].client = recs[t].client
          /\ after[t].kind = recs[t].kind
          /\ after[t].amount = recs[t].amount

\* C26: the record map changes only by the insertion of one record by a
\* Deposit or Withdrawal that takes effect.  Whatever command comes next, no
\* record is removed and none changes its client, kind or amount; a Dispute,
\* Resolve or Chargeback leaves the set of tx ids as it is; a Deposit or
\* Withdrawal either leaves the whole map as it is or takes effect and adds
\* exactly the record of its own tx, client, kind and amount, in state
\* Normal, every other record untouched.
C26_RecordsOnlyInserted ==
    /\ \A cmd \in Commands :
          RecordsKept(txs, execute(cmd, accounts, txs).txs)
    /\ \A cmd \in LifecycleCommands :
          DOMAIN execute(cmd, accounts, txs).txs = DOMAIN txs
    /\ \A cmd \in FundsCommands :
          LET r == execute(cmd, accounts, txs)
          IN \/ r.txs = txs /\ ~r.applied
             \/ /\ r.applied
                /\ cmd.tx \notin DOMAIN txs
                /\ r.txs = insert(txs, cmd.tx,
                                  TxRecord(cmd.client,
                                           IF cmd.kind = "deposit" THEN "Deposit"
                                           ELSE "Withdrawal",
                                           cmd.amount, "Normal"))

\* Two records exist, one of them created by a Withdrawal, and a dispute
\* has changed the state of one: insertions by both kinds of command and a
\* lifecycle command have happened.
C26_Witness ==
    /\ \E t \in DOMAIN txs : txs[t].kind = "Withdrawal"
    /\ \E t \in DOMAIN txs : txs[t].state # "Normal"
    /\ Cardinality(DOMAIN txs) >= 2

\* ---------------------------------------------------------------- C27
\* A text of decimal digits only.
IsDigits(s) == \A i \in 1..Len(s) : is_digit(s[i])

\* The first four fractional digits as a number of units of 0.0001, missing
\* digits counting as 0.
Kept4(fp) ==
    LET d(i) == IF i <= Len(fp) THEN digit_val(fp[i]) ELSE 0
    IN d(1) * 1000 + d(2) * 100 + d(3) * 10 + d(4)

\* One unit when there is a fifth fractional digit and it is 5 or more.
HalfUp(fp) == IF Len(fp) >= 5 /\ digit_val(fp[5]) >= 5 THEN 1 ELSE 0

\* C27: parsing rounds half-up on the fifth fractional digit.  For a text
\* made of an optional sign, an integer part of digits, a '.' and a
\* fractional part of digits, whose value fits, parse_4dp returns the amount
\* whose magnitude is the integer part and the first four fractional digits,
\* plus one unit exactly when a fifth digit exists and is >= 5, whatever
\* follows it; 123.45675 gives 1234568, 123.4567 gives 1234567 and 0.99995
\* gives 10000.
C27_RoundsHalfUp ==
    parsed # NotParsed =>
        /\ \A p \in Pads, sg \in {<<>>, <<"-">>, <<"+">>}, ip \in IntParts, fp \in FracParts :
              (/\ amount_text = p \o sg \o ip \o <<".">> \o fp \o p
               /\ ip # <<>> /\ IsDigits(ip) /\ IsDigits(fp)
               /\ digits_val(ip, 0) < I64_MAX \div SCALE) =>
                  LET mag == digits_val(ip, 0) * SCALE + Kept4(fp) + HalfUp(fp)
                  IN parsed = Parsed("Ok", IF sg = <<"-">> THEN -mag ELSE mag)
        /\ amount_text = <<"1", "2", "3", ".", "4", "5", "6", "7", "5">>
              => parsed = Parsed("Ok", 1234568)
        /\ amount_text = <<"1", "2", "3", ".", "4", "5", "6", "7">>
              => parsed = Parsed("Ok", 1234567)
        /\ amount_text = <<"0", ".", "9", "9", "9", "9", "5">>
              => parsed = Parsed("Ok", 10000)

\* parse_4dp has returned for a text whose fifth fractional digit made the
\* carry run into the integer part.
C27_Witness ==
    /\ amount_text = <<"0", ".", "9", "9", "9", "9", "5">>
    /\ parsed.res = "Ok"

\* ---------------------------------------------------------------- C28
\* C28: parsing rejects what is not a number.  A text that is blank gives
\* Empty; a text made of white space, at most one sign, an integer part, and
\* possibly a '.' and a fractional part gives MalformedInt when the integer
\* part has a character that is not a digit, MalformedFrac when the integer
\* part is digits and the fractional part has a character that is not a
\* digit, at whatever position, and Overflow when both are digits and the
\* integer part times 10000 is beyond the i64 range; in none of these cases
\* does parse_4dp return an amount (or fail to return).
C28_RejectsNonNumeric ==
    parsed # NotParsed =>
        /\ (\A i \in 1..Len(amount_text) : amount_text[i] = " ")
              => parsed.res = "Empty"
        /\ \A p \in Pads, sg \in {<<>>, <<"-">>, <<"+">>}, ip \in IntParts,
              fp \in FracParts \cup {<<>>}, dot \in {<<>>, <<".">>} :
              (/\ amount_text = p \o sg \o ip \o dot \o fp \o p
               /\ dot = <<>> => fp = <<>>) =>
                  /\ ~IsDigits(ip) => parsed.res = "MalformedInt"
                  /\ (ip # <<>> /\ IsDigits(ip) /\ ~IsDigits(fp))
                        => parsed.res = "MalformedFrac"
                  /\ (ip # <<>> /\ IsDigits(ip) /\ IsDigits(fp)
                      /\ digits_val(ip, 0) > (I64_MAX \div SCALE) + 1)
                        => parsed.res = "Overflow"

\* ---------------------------------------------------------------- C29
\* An unsigned decimal text: digits, or digits, a '.' and digits.
IsUnsignedDecimal(x) ==
    \/ x # <<>> /\ IsDigits(x)
    \/ \E i \in 2..Len(x) :
          /\ x[i] = "."
          /\ IsDigits(SubSeq(x, 1, i - 1))
          /\ IsDigits(SubSeq(x, i + 1, Len(x)))

\* The result with the opposite sign: an amount is negated, an error stays.
Negated(r) == IF r.res = "Ok" THEN Parsed("Ok", -r.val) ELSE r

\* C29: one leading sign is accepted.  For an unsigned decimal text x,
\* parse_4dp("-" x) is the negation of parse_4dp(x) and parse_4dp("+" x)
\* equals parse_4dp(x); a text that goes on with a second sign character is
\* rejected with MalformedInt.
C29_SignHandling ==
    (parsed # NotParsed /\ amount_text # <<>> /\ amount_text[1] \in {"+", "-"}) =>
        LET x == Tail(amount_text)
        IN /\ (IsUnsignedDecimal(x) /\ amount_text[1] = "-")
                 => parsed = Negated(parse_4dp(x))
           /\ (IsUnsignedDecimal(x) /\ amount_text[1] = "+")
                 => parsed = parse_4dp(x)
           /\ (x # <<>> /\ x[1] \in {"+", "-"})
                 => parsed.res = "MalformedInt"

\* ---------------------------------------------------------------- C30
\* C30: a Dispute, Resolve or Chargeback that returns a hard error has not
\* touched the record map: the state of the record it names, and of every
\* other record, is what it was before the command.
C30_ErrorKeepsRecordState ==
    \A cmd \in LifecycleCommands :
        LET r == execute(cmd, accounts, txs)
        IN r.result # "Ok" =>
              /\ DOMAIN r.txs = DOMAIN txs
              /\ \A t \in DOMAIN txs : r.txs[t].state = txs[t].state

\* A Dispute that passes its checks fails on the held addition, and a
\* Resolve of a disputed record fails on the held check: both handlers
\* return a hard error in this state.
C30_Witness ==
    /\ \E c \in ClientId, t \in DOMAIN txs :
          /\ txs[t].state = "Normal"
          /\ txs[t].client = c
          /\ process_dispute_command(accounts, txs, c, t).result = "Overflow"
          /\ process_dispute_command(accounts, txs, c, t).accounts # accounts
    /\ \E c \in ClientId, t \in DOMAIN txs :
          /\ txs[t].state = "Disputed"
          /\ process_resolve_command(accounts, txs, c, t).result = "Overflow"

\* ---------------------------------------------------------------- C31
\* C31: frame.  A command naming client c and tx t, whatever its outcome
\* (effect, ignored, hard error), leaves the account of every other client
\* and every record other than t as they were: none is removed, none is
\* added, none is changed.
C31_Frame ==
    \A cmd \in Commands :
        LET r == execute(cmd, accounts, txs)
        IN /\ DOMAIN accounts \subseteq DOMAIN r.accounts
           /\ DOMAIN r.accounts \subseteq DOMAIN accounts \cup {cmd.client}
           /\ \A d \in DOMAIN accounts \ {cmd.client} : r.accounts[d] = accounts[d]
           /\ DOMAIN txs \subseteq DOMAIN r.txs
           /\ DOMAIN r.txs \subseteq DOMAIN txs \cup {cmd.tx}
           /\ \A u \in DOMAIN txs \ {cmd.tx} : r.txs[u] = txs[u]

\* Two clients have accounts and there is a record; in this state one
\* command takes effect, one is ignored and one fails with a hard error.
C31_Witness ==
    /\ Cardinality(DOMAIN accounts) >= 2
    /\ txs # <<>>
    /\ \E cmd \in Commands : execute(cmd, accounts, txs).applied
    /\ \E cmd \in Commands : execute(cmd, accounts, txs).result = "Overflow"
    /\ \E cmd \in Commands :
          LET r == execute(cmd, accounts, txs)
          IN r.result = "Ok" /\ ~r.applied

\* ---------------------------------------------------------------- C32
\* C32: the hard errors of the dispute lifecycle.  For a record t of client
\* c: a Dispute that is eligible (Normal Deposit, available >= amount)
\* returns Overflow exactly when held + amount is outside the i64 range; a
\* Resolve of a Disputed record returns Overflow exactly when held < amount
\* or available + amount is outside the range; a Chargeback of a Disputed
\* record returns Overflow exactly when held - amount is outside the range,
\* and not merely because held < amount.
C32_HardErrorConditions ==
    \A t \in DOMAIN txs :
        LET c == txs[t].client
            old == AccountOf(accounts, c)
            amt == txs[t].amount
        IN /\ (txs[t].kind = "Deposit" /\ txs[t].state = "Normal" /\ old.available >= amt) =>
                 (process_dispute_command(accounts, txs, c, t).result = "Overflow"
                     <=> old.held + amt \notin I64_MIN..I64_MAX)
           /\ txs[t].state = "Disputed" =>
                 (process_resolve_command(accounts, txs, c, t).result = "Overflow"
                     <=> (\/ old.held < amt
                          \/ old.available + amt \notin I64_MIN..I64_MAX))
           /\ txs[t].state = "Disputed" =>
                 (process_chargeback_command(accounts, txs, c, t).result = "Overflow"
                     <=> old.held - amt \notin I64_MIN..I64_MAX)

\* ---------------------------------------------------------------- C33
\* C33: the two revisions of Resolve agree.  For a Disputed record t of
\* client c, the handler that rejects held < amount first and the handler
\* that relies on checked_sub alone both return Overflow, or both succeed
\* and leave the same held and available.
C33_ResolveRevisionsAgree ==
    \A t \in DOMAIN txs :
        LET c == txs[t].client
            now == process_resolve_command(accounts, txs, c, t)
            early == process_resolve_command_early(accounts, txs, c, t)
        IN txs[t].state = "Disputed" =>
              /\ now.result = early.result
              /\ now.result = "Ok" =>
                    /\ now.accounts[c].held = early.accounts[c].held
                    /\ now.accounts[c].available = early.accounts[c].available

\* ---------------------------------------------------------------- C34
\* C34: a Withdrawal never returns a hard error.  Whatever the amount and the
\* state, process_withdrawal_command returns Ok: where the guard
\* available >= amt passes, the checked subtraction succeeds.
C34_WithdrawalNeverFails ==
    \A c \in ClientId, t \in TxId, a \in InputAmounts :
        process_withdrawal_command(accounts, txs, c, t, a).result = "Ok"

\* ---------------------------------------------------------------- C35
\* C35: atomicity on hard error.  Whenever a handler returns Overflow, the
\* ledger it leaves is the ledger before the command: the same accounts with
\* the same available, held and locked, and the same records.  (An account
\* created with zero balances for a client that had none is compared as the
\* zero account.)
C35_HardErrorIsAtomic ==
    \A cmd \in Commands :
        LET r == execute(cmd, accounts, txs)
        IN r.result = "Overflow" =>
              /\ r.txs = txs
              /\ \A c \in ClientId : AccountOf(r.accounts, c) = AccountOf(accounts, c)

\* ---------------------------------------------------------------- C36
\* The sum of the amounts of the records among S that client c owns and
\* that are Disputed.
RECURSIVE DisputedSum(_, _, _)
DisputedSum(recs, c, S) ==
    IF S = {} THEN 0
    ELSE LET t == CHOOSE u \in S : TRUE
             rest == DisputedSum(recs, c, S \ {t})
         IN IF recs[t].client = c /\ recs[t].state = "Disputed"
            THEN recs[t].amount + rest ELSE rest

\* C36: held is exactly the disputed money.  In every reachable state, for
\* every client, held equals the sum of the amounts of the client's records
\* that are Disputed (0 for a client without account).
C36_HeldIsDisputedMoney ==
    \A c \in ClientId :
        AccountOf(accounts, c).held = DisputedSum(txs, c, DOMAIN txs)

\* ---------------------------------------------------------------- C37
\* C37: in every reachable state, a client's account is locked if and only
\* if a record owned by that client is ChargedBack.
C37_LockedIffChargedBack ==
    \A c \in ClientId :
        Locked(accounts, c)
            <=> \E t \in DOMAIN txs : txs[t].client = c /\ txs[t].state = "ChargedBack"

\* One client is locked after a chargeback, another client has an account
\* and a record and is not locked.
C37_Witness ==
    /\ \E c \in DOMAIN accounts :
          /\ accounts[c].locked
          /\ \E t \in DOMAIN txs : txs[t].client = c /\ txs[t].state = "ChargedBack"
    /\ \E c \in DOMAIN accounts :
          /\ ~accounts[c].locked
          /\ \E t \in DOMAIN txs : txs[t].client = c

\* ---------------------------------------------------------------- C38
\* C38: client isolation.  The account of a client after a sequence of
\* commands is the account after the commands naming that client alone, so
\* two sequences with the same commands naming c leave c the same available,
\* held and locked.
C38_ClientIsolation ==
    \A c \in ClientId :
        AccountOf(accounts, c) = AccountOf(alone[c].accounts, c)

\* No tx id is named by Deposits or Withdrawals of two different clients.
TxIdsNotShared ==
    \A c \in ClientId, d \in ClientId :
        c # d => alone[c].named \cap alone[d].named = {}

\* C38 as amended: client isolation holds for sequences in which no tx id is
\* named by Deposits or Withdrawals of two different clients.
C38_IsolationWithOwnTxIds ==
    TxIdsNotShared => C38_ClientIsolation

\* Two clients have each named a tx id of their own; one holds disputed
\* money and the other is locked after a chargeback, and no tx id is shared.
C38_Witness ==
    /\ TxIdsNotShared
    /\ \A c \in ClientId : alone[c].named # {}
    /\ \E c \in DOMAIN accounts : accounts[c].locked
    /\ \E c \in DOMAIN accounts : ~accounts[c].locked /\ accounts[c].available # 0

\* ---------------------------------------------------------------- C39
\* What a Deposit or Withdrawal needs to take effect in a ledger: the tx is
\* not recorded, the account is not locked, available covers the amount of
\* a Withdrawal, and the new available is within the i64 range.
FundsPreconditions(cmd, accts, recs) ==
    /\ cmd.tx \notin DOMAIN recs
    /\ ~AccountOf(accts, cmd.client).locked
    /\ IF cmd.kind = "deposit"
       THEN AccountOf(accts, cmd.client).available + cmd.amount \in I64_MIN..I64_MAX
       ELSE /\ AccountOf(accts, cmd.client).available >= cmd.amount
            /\ AccountOf(accts, cmd.client).available - cmd.amount \in I64_MIN..I64_MAX

\* C39: a tx id is consumed only by a Deposit or Withdrawal that takes
\* effect.  After a Deposit or Withdrawal on an unrecorded tx id that was
\* ignored or failed, the tx id is still unrecorded, a Dispute on it by any
\* client changes nothing, and every Deposit or Withdrawal with that tx id
\* whose preconditions hold takes effect and records it.  (A Withdrawal whose
\* subtraction overflows does not meet them, as a Deposit whose addition
\* overflows does not.)
C39_TxIdConsumedOnlyByEffect ==
    \A cmd \in FundsCommands :
        LET r == execute(cmd, accounts, txs)
        IN (cmd.tx \notin DOMAIN txs /\ ~r.applied) =>
              /\ cmd.tx \notin DOMAIN r.txs
              /\ \A c \in ClientId :
                    LET d == process_dispute_command(r.accounts, r.txs, c, cmd.tx)
                    IN d.result = "Ok" /\ d.accounts = r.accounts /\ d.txs = r.txs
              /\ \A again \in FundsCommands :
                    (again.tx = cmd.tx /\ FundsPreconditions(again, r.accounts, r.txs)) =>
                        LET r2 == execute(again, r.accounts, r.txs)
                        IN r2.applied /\ r2.result = "Ok" /\ cmd.tx \in DOMAIN r2.txs

\* A tx id is unrecorded; on it a Deposit is ignored because the account is
\* locked and a Withdrawal is ignored for insufficient funds, and a Deposit
\* of another client then takes effect on the same tx id.
C39_Witness ==
    \E t \in TxId :
        /\ t \notin DOMAIN txs
        /\ \E c \in DOMAIN accounts :
              /\ accounts[c].locked
              /\ ~process_deposit_command(accounts, txs, c, t, 1).applied
        /\ \E c \in ClientId :
              /\ ~Locked(accounts, c)
              /\ ~process_withdrawal_command(accounts, txs, c, t, 1).applied
              /\ process_deposit_command(
                    process_withdrawal_command(accounts, txs, c, t, 1).accounts,
                    txs, c, t, 1).applied

\* ---------------------------------------------------------------- C40
\* C40: re-dispute.  Where a Dispute of a deposit takes effect and the
\* Resolve after it takes effect, the record is Normal again and the same
\* Dispute takes effect once more, with the effect it had the first time, so
\* the cycle can go round from every state it returns to; a record becomes
\* ChargedBack by no command but a Chargeback, and on a ChargedBack record
\* neither Dispute nor Resolve does anything.
C40_ReDispute ==
    /\ \A t \in DOMAIN txs :
          LET c == txs[t].client
              d == process_dispute_command(accounts, txs, c, t)
              r == process_resolve_command(d.accounts, d.txs, c, t)
              again == process_dispute_command(r.accounts, r.txs, c, t)
          IN (d.applied /\ r.applied) =>
                /\ d.txs[t].state = "Disputed"
                /\ r.txs[t].state = "Normal"
                /\ again.applied
                /\ again.accounts = d.accounts
                /\ again.txs = d.txs
    /\ \A cmd \in Commands, t \in DOMAIN txs :
          LET r == execute(cmd, accounts, txs)
          IN /\ (txs[t].state # "ChargedBack" /\ r.txs[t].state = "ChargedBack")
                   => cmd.kind = "chargeback" /\ cmd.tx = t
             /\ (txs[t].state = "ChargedBack" /\ cmd.tx = t
                 /\ cmd.kind \in {"dispute", "resolve"})
                   => r.accounts = accounts /\ r.txs = txs

\* A deposit is Disputed and its Resolve takes effect here, and the Dispute
\* after that takes effect again; another record has been charged back.
C40_Witness ==
    /\ \E t \in DOMAIN txs :
          LET c == txs[t].client
              r == process_resolve_command(accounts, txs, c, t)
          IN /\ txs[t].state = "Disputed"
             /\ last_dispute[t]
             /\ r.applied
             /\ process_dispute_command(r.accounts, r.txs, c, t).applied
    /\ \E t \in DOMAIN txs : txs[t].state = "ChargedBack"

====
